---- MODULE Spec2Model ----
(***************************************************************************)
(* A model of the randomized effect-chain orchestrator of ytpvideomaker2:  *)
(* effects.py (the effect library and apply_randomized_effects_to_clip),   *)
(* utils.py (run_cmd, load_config, save_project) and the callers in        *)
(* main.py (cli_main, run_gui).                                            *)
(*                                                                         *)
(* Abstractions.  A probability or a random sample is an integer number of *)
(* 1/SampleScale units (0.25 is SampleScale \div 4).  Python's global      *)
(* `random` generator is a deterministic generator with a state: one draw  *)
(* returns a function of the state and advances it.  A file is its         *)
(* presence, the run that last wrote it and its frame count.  All media    *)
(* files carry the same suffix, so step_<k><suffix> is the path StepPath(k).*)
(* An external ffmpeg invocation is an atomic step whose exit status is    *)
(* chosen by the environment; a failing invocation may or may not have     *)
(* created its output file.                                                *)
(***************************************************************************)
EXTENDS Integers, Sequences, FiniteSets, TLC

VARIABLES
    cfgFile,     \* content of config.json on disk
    heap,        \* the dict objects holding "effects" mappings, by reference
    cfg,         \* the configuration object returned by load_config
    assetExists, \* whether <dir>/assets/rainbow_overlay.png exists
    inputFrames, \* frames ffmpeg extracts from the caller's source clip
    rng,         \* state of the global random generator
    fs,          \* the files the runs touch
    run,         \* per run: the locals of apply_randomized_effects_to_clip
    effect_vars, \* run_gui: the IntVar of every effect toggle
    gui,         \* run_gui: "off", "up" or "crashed" (an exception left run_gui)
    project,     \* content of last_project.json
    seed,        \* the seed the generator was last seeded with
    sp           \* apply_speed_change: the locals of the atempo computation

vars == <<cfgFile, heap, cfg, assetExists, inputFrames, rng, fs, run,
          effect_vars, gui, project, seed, sp>>

---------------------------------------------------------------------------
(* Bounds of the model. *)

\* Resolution of probabilities and samples: a sample is one of 0..SampleScale-1.
SampleScale == 20

\* Seeds of the generator a behaviour may start from: 0..MaxSeed.
MaxSeed == 5

\* The source clip has 0..MaxInputFrames frames.
MaxInputFrames == 1

\* Runs of the orchestrator that may exist at once (GUI preview threads).
MaxRuns == 2

RunIds == 1..MaxRuns

---------------------------------------------------------------------------
(* Effect families and configuration values. *)

\* An order with chorus ahead of frame_shuffle.
EffectOrderChorusFirst ==
    <<"invert", "mirror", "reverse", "speed_change", "stutter_loop",
      "chorus", "frame_shuffle", "earrape", "rainbow_overlay">>

\* The order of the sequential conditionals of apply_randomized_effects_to_clip.
EffectOrder ==
    <<"invert", "mirror", "reverse", "speed_change", "stutter_loop",
      "frame_shuffle", "chorus", "earrape", "rainbow_overlay">>

Families == {EffectOrder[i] : i \in 1..Len(EffectOrder)}

\* p percent as a number of 1/SampleScale units.
Pct(p) == (p * SampleScale) \div 100

\* A per-family configuration value: t is "dict" for a JSON object, "other"
\* for any other JSON value, "missing" when the key is absent; enabled is
\* "true", "false" or "missing"; ptype is "num", "other" or "missing".
EntryMissing ==
    [t |-> "missing", enabled |-> "missing", ptype |-> "missing", prob |-> 0]

EntryOther ==
    [t |-> "other", enabled |-> "missing", ptype |-> "missing", prob |-> 0]

Entry(en, p) ==
    [t |-> "dict", enabled |-> IF en THEN "true" ELSE "false",
     ptype |-> "num", prob |-> p]

EntryNoProb(en) ==
    [t |-> "dict", enabled |-> IF en THEN "true" ELSE "false",
     ptype |-> "missing", prob |-> 0]

EntryBadProb ==
    [t |-> "dict", enabled |-> "true", ptype |-> "other", prob |-> 0]

EntryEmpty ==
    [t |-> "dict", enabled |-> "missing", ptype |-> "missing", prob |-> 0]

\* The "effects" value of load_config's default.
DefaultEntries ==
    [f \in Families |->
        CASE f = "invert"          -> Entry(TRUE, Pct(25))
          [] f = "mirror"          -> Entry(TRUE, Pct(20))
          [] f = "reverse"         -> Entry(TRUE, Pct(15))
          [] f = "stutter_loop"    -> Entry(TRUE, Pct(20))
          [] f = "frame_shuffle"   -> Entry(TRUE, Pct(10))
          [] f = "chorus"          -> Entry(TRUE, Pct(10))
          [] f = "earrape"         -> Entry(TRUE, Pct(5))
          [] f = "rainbow_overlay" -> Entry(TRUE, Pct(15))
          [] OTHER                 -> EntryMissing]

\* An "effects" value: a dict of entries, or a JSON value of another type.
EffectsDict(entries) == [t |-> "dict", entries |-> entries]

EffectsOther == [t |-> "other", entries |-> [f \in Families |-> EntryMissing]]

DefaultEffects == EffectsDict(DefaultEntries)

\* The default_prob argument of each chance(...) call.
DefaultProb(f) ==
    CASE f = "invert"          -> Pct(25)
      [] f = "mirror"          -> Pct(25)
      [] f = "reverse"         -> Pct(15)
      [] f = "speed_change"    -> Pct(25)
      [] f = "stutter_loop"    -> Pct(20)
      [] f = "frame_shuffle"   -> Pct(10)
      [] f = "chorus"          -> Pct(10)
      [] f = "earrape"         -> Pct(5)
      [] OTHER                 -> Pct(15)

---------------------------------------------------------------------------
(* The configuration file and load_config. *)

\* Content of config.json: kind is "absent", "garbage" (not JSON), "scalar"
\* (a JSON number, boolean or null), "seq" (a JSON string or array; members
\* are the default's top-level keys that `in` finds in it) or "dict" (a JSON
\* object; members are its top-level keys among the default's).
File(kind, members, effects) ==
    [kind |-> kind, members |-> members, effects |-> effects]

DefaultKeys == {"effects", "paths"}

DefaultFile == File("dict", DefaultKeys, DefaultEffects)

\* What load_config returns: t is "dict" for a dict and "other" for a str or
\* list, effects is the value under "effects".
LoadConfig(f) ==
    IF f.kind = "absent" THEN [t |-> "dict", effects |-> DefaultEffects]
    ELSE IF f.kind = "garbage" THEN [t |-> "dict", effects |-> DefaultEffects]
    ELSE IF f.kind = "scalar" THEN [t |-> "dict", effects |-> DefaultEffects]
    ELSE IF f.kind = "seq" THEN
        IF DefaultKeys \subseteq f.members
        THEN [t |-> "other", effects |-> EffectsOther]
        ELSE [t |-> "dict", effects |-> DefaultEffects]
    ELSE [t |-> "dict",
          effects |-> IF "effects" \in f.members THEN f.effects
                      ELSE DefaultEffects]

\* config.json after load_config: a missing file is written with the default.
FileAfterLoad(f) == IF f.kind = "absent" THEN DefaultFile ELSE f

---------------------------------------------------------------------------
(* The global random generator. *)

\* The state after one draw.
NextRng(g) == (g + 13) % SampleScale

\* The state after n draws.
RECURSIVE Advance(_, _)
Advance(g, n) == IF n <= 0 THEN g ELSE Advance(NextRng(g), n - 1)

\* random.random(): a sample in [0, 1), in 1/SampleScale units.
RandomSample(g) == g

\* random.choice([0.5, 0.75, 1.25, 1.5, 2.0]), in percent.
SpeedChoices == <<50, 75, 125, 150, 200>>

RandomChoice(g) == SpeedChoices[(g % Len(SpeedChoices)) + 1]

\* random.randint(2, 4).
RandInt(g) == 2 + (g % 3)

---------------------------------------------------------------------------
(* chance(effect_name, default_prob), the closure of the orchestrator. *)

\* A probability that leaves the configured value aside.
ProbabilityDefaultOnly(e, f) == DefaultProb(f)

\* The probability chance compares the sample with.
Probability(e, f) == IF e.ptype = "num" THEN e.prob ELSE DefaultProb(f)

\* chance without the test of "enabled".
ChanceNoEnabledCheck(eff, f, g) ==
    IF eff.t # "dict" THEN [kind |-> "AttributeError", fire |-> FALSE, sample |-> -1]
    ELSE LET e == eff.entries[f] IN
         IF e.t = "other"
         THEN [kind |-> "AttributeError", fire |-> FALSE, sample |-> -1]
         ELSE IF e.ptype = "other"
         THEN [kind |-> "TypeError", fire |-> FALSE, sample |-> RandomSample(g)]
         ELSE [kind |-> "drawn", fire |-> RandomSample(g) < Probability(e, f),
               sample |-> RandomSample(g)]

\* kind: "AttributeError" (.get on a value that is no dict), "disabled"
\* (returns False before drawing), "TypeError" (sample < a non-number) or
\* "drawn"; fire: the value returned; sample: the sample drawn (-1: none).
Chance(eff, f, g) ==
    IF eff.t # "dict" THEN [kind |-> "AttributeError", fire |-> FALSE, sample |-> -1]
    ELSE LET e == eff.entries[f] IN
         IF e.t = "other"
         THEN [kind |-> "AttributeError", fire |-> FALSE, sample |-> -1]
         ELSE IF e.enabled = "false"
         THEN [kind |-> "disabled", fire |-> FALSE, sample |-> -1]
         ELSE IF e.ptype = "other"
         THEN [kind |-> "TypeError", fire |-> FALSE, sample |-> RandomSample(g)]
         ELSE [kind |-> "drawn", fire |-> RandomSample(g) < Probability(e, f),
               sample |-> RandomSample(g)]

---------------------------------------------------------------------------
(* Paths and files. *)

StepName ==
    <<"step_0", "step_1", "step_2", "step_3", "step_4",
      "step_5", "step_6", "step_7", "step_8", "step_9">>

\* os.path.join(TEMP_DIR, f"step_{idx}{suffix}")
StepPath(idx) == StepName[idx + 1]

StepPaths == {StepName[i] : i \in 1..Len(StepName)}

\* A clip of the sources directory, and a preview path outside step_<k>.
SourceClip == "sources/clip"

PreviewOut == "temp/preview"

Paths == StepPaths \cup {SourceClip, PreviewOut}

\* The paths a caller may pass as input_path and as output_path.
InputPaths == {SourceClip, StepPath(0), StepPath(1)}

OutputPaths == {PreviewOut, StepPath(1)}

NoFile == [state |-> "absent", writer |-> 0, frames |-> 0]

\* A file written completely by run r (0: by the user, before any run).
Written(r, n) == [state |-> "complete", writer |-> r, frames |-> n]

\* What a failed invocation may leave at its output path.
Partial(r) == [state |-> "partial", writer |-> r, frames |-> 0]

\* max_frames of apply_frame_shuffle
max_frames == 500

Min(a, b) == IF a < b THEN a ELSE b

\* Frames of the output of effect f applied to a clip of n frames.
FramesAfter(f, param, n) ==
    CASE f = "stutter_loop"  -> n * param
      [] f = "frame_shuffle" -> Min(n, max_frames)
      [] OTHER               -> n

\* random.shuffle(frames) draws once per element but the first.
ShuffleDraws(n) == IF Min(n, max_frames) > 1 THEN Min(n, max_frames) - 1 ELSE 0

---------------------------------------------------------------------------
(* One run of apply_randomized_effects_to_clip. *)

\* pc: "idle" (not called), "called" (arguments bound), a family name (about
\* to evaluate that family's conditional), "final", "done" (returned) or
\* "raised" (an exception left the function).
\* steps, working: the locals of the same name.  evald: the families whose
\* conditional was evaluated, fired: the families chance chose with their
\* parameter, calls: the file operations performed, sample: the sample of the
\* last chance call (-1: none drawn), inFrames: the frames of the input as
\* copied, err: the exception raised.
IdleRun ==
    [pc |-> "idle", input |-> "", output |-> "", preview |-> FALSE,
     effects |-> 0, cfgT |-> "dict", working |-> "", steps |-> <<>>,
     evald |-> <<>>, fired |-> <<>>, calls |-> <<>>, sample |-> -1,
     inFrames |-> 0, err |-> "none"]

CalledRun(input, output, preview, config) ==
    [IdleRun EXCEPT !.pc = "called", !.input = input, !.output = output,
                    !.preview = preview, !.effects = config.effects,
                    !.cfgT = config.t]

Call(op, f, src, dst, result) ==
    [op |-> op, fam |-> f, src |-> src, dst |-> dst, result |-> result]

Raise(me, e) == [me EXCEPT !.pc = "raised", !.err = e]

\* The conditional after family f's, or the finalization.
Position(f) == CHOOSE i \in 1..Len(EffectOrder) : EffectOrder[i] = f

Succ(f) ==
    IF Position(f) < Len(EffectOrder) THEN EffectOrder[Position(f) + 1]
    ELSE "final"

\* A condition that does not look for the asset.
OverlayAssetMissingIgnored == TRUE

\* os.path.exists(overlay_asset)
OverlayAssetPresent == assetExists

\* The part of a conditional before chance: only rainbow_overlay has one.
Gate(f) == f = "rainbow_overlay" => OverlayAssetPresent

\* The randomized parameter of a fired family and the draws it takes.
Param(f, g) ==
    CASE f = "speed_change" -> RandomChoice(g)
      [] f = "stutter_loop" -> RandInt(g)
      [] f = "earrape"      -> 18
      [] OTHER              -> 0

ParamDraws(f) == IF f \in {"speed_change", "stutter_loop"} THEN 1 ELSE 0

\* len(frames) were the frames extracted into one directory shared by all
\* runs: the frames of finished runs would be listed too.
ExtractedFramesSharedDir(n) ==
    n + Cardinality({q \in RunIds :
            \E i \in 1..Len(run[q].calls) :
                /\ run[q].calls[i].fam = "frame_shuffle"
                /\ run[q].calls[i].result # "fail_extract"
                /\ run[q].pc \in {"done", "raised"}})

\* len(frames) after the extraction into the fresh mkdtemp directory.
ExtractedFrames(n) == n

\* An out whose index does not follow len(steps).
StepOutFirstIndex(steps) == StepPath(1)

\* apply_step's out: idx = len(steps) + 1
StepOut(steps) == StepPath(Len(steps) + 1)

\* How the invocation(s) of a fired family may end: "ok", "fail" (non-zero
\* exit, nothing at the output path), "fail_partial" (non-zero exit, a file
\* left at the output path), "fail_extract" (frame_shuffle's first command).
Outcomes(f) ==
    IF f = "frame_shuffle" THEN {"ok", "fail", "fail_partial", "fail_extract"}
    ELSE {"ok", "fail", "fail_partial"}

\* apply_step(fn, ...) of a fired family f ending with outcome o, from the
\* generator state g (after chance's draw): the run, the files, the generator.
ApplyStep(r, f, g, o) ==
    LET me    == run[r]
        p     == Param(f, g)
        g2    == Advance(g, ParamDraws(f))
        out   == StepOut(me.steps)
        n     == fs[me.working].frames
        m     == ExtractedFrames(n)
        chose == [me EXCEPT !.fired = Append(@, [fam |-> f, param |-> p])]
        log(x) == [chose EXCEPT !.calls =
                      Append(@, Call("effect", f, me.working, out, x))]
    IN  IF f = "frame_shuffle" /\ o = "fail_extract"
        THEN [run |-> Raise(log(o), "ProcessingError"), fs |-> fs, rng |-> g2]
        ELSE IF f = "frame_shuffle" /\ m = 0
        THEN [run |-> Raise(log("no_frames"), "NoFrames"), fs |-> fs, rng |-> g2]
        ELSE LET g3 == IF f = "frame_shuffle"
                       THEN Advance(g2, ShuffleDraws(m)) ELSE g2
             IN CASE o = "ok" ->
                     [run |-> [log(o) EXCEPT !.steps = Append(@, out),
                                             !.working = out,
                                             !.pc = Succ(f)],
                      fs  |-> [fs EXCEPT ![out] =
                                  Written(r, FramesAfter(f, p, m))],
                      rng |-> g3]
                  [] o = "fail_partial" ->
                     [run |-> Raise(log(o), "ProcessingError"),
                      fs  |-> [fs EXCEPT ![out] = Partial(r)],
                      rng |-> g3]
                  [] OTHER ->
                     [run |-> Raise(log(o), "ProcessingError"),
                      fs  |-> fs, rng |-> g3]

\* One conditional `if chance(f, p): apply_step(...)` of run r.
Stage(r, f) ==
    /\ run[r].pc = f
    /\ LET me   == [run[r] EXCEPT !.evald = Append(@, f)]
           c    == Chance(heap[me.effects], f, rng)
           g1   == IF c.sample >= 0 THEN NextRng(rng) ELSE rng
           seen == [me EXCEPT !.sample = c.sample]
       IN  IF ~Gate(f)
           THEN /\ run' = [run EXCEPT ![r] =
                              [me EXCEPT !.sample = -1, !.pc = Succ(f)]]
                /\ UNCHANGED <<fs, rng>>
           ELSE IF c.kind \in {"AttributeError", "TypeError"}
           THEN /\ run' = [run EXCEPT ![r] = Raise(seen, c.kind)]
                /\ rng' = g1
                /\ UNCHANGED fs
           ELSE IF ~c.fire
           THEN /\ run' = [run EXCEPT ![r] = [seen EXCEPT !.pc = Succ(f)]]
                /\ rng' = g1
                /\ UNCHANGED fs
           ELSE \E o \in Outcomes(f) :
                  LET res == ApplyStep(r, f, g1, o)
                  IN  /\ run' = [run EXCEPT ![r] =
                                    [res.run EXCEPT !.evald = seen.evald,
                                                    !.sample = seen.sample]]
                      /\ fs' = res.fs
                      /\ rng' = res.rng
    /\ UNCHANGED <<cfgFile, heap, cfg, assetExists, inputFrames,
                   effect_vars, gui, project, seed, sp>>

Invert(r) == Stage(r, "invert")

Mirror(r) == Stage(r, "mirror")

Reverse(r) == Stage(r, "reverse")

SpeedChange(r) == Stage(r, "speed_change")

StutterLoop(r) == Stage(r, "stutter_loop")

FrameShuffle(r) == Stage(r, "frame_shuffle")

Chorus(r) == Stage(r, "chorus")

Earrape(r) == Stage(r, "earrape")

RainbowOverlay(r) == Stage(r, "rainbow_overlay")

\* The entry of the function: config.get("effects", {}) and the copy of the
\* input into step_0.
Begin(r) ==
    /\ run[r].pc = "called"
    /\ LET me   == run[r]
           base == StepPath(0)
       IN  IF me.cfgT # "dict"
           THEN /\ run' = [run EXCEPT ![r] = Raise(me, "AttributeError")]
                /\ UNCHANGED fs
           ELSE IF me.input = base
           THEN /\ run' = [run EXCEPT ![r] =
                    Raise([me EXCEPT !.calls = Append(@,
                             Call("copy", "", me.input, base, "same_file"))],
                          "SameFileError")]
                /\ UNCHANGED fs
           ELSE /\ run' = [run EXCEPT ![r] =
                    [me EXCEPT !.calls = Append(@,
                                  Call("copy", "", me.input, base, "ok")),
                               !.working = base,
                               !.inFrames = fs[me.input].frames,
                               !.pc = EffectOrder[1]]]
                /\ fs' = [fs EXCEPT ![base] = Written(r, fs[me.input].frames)]
    /\ UNCHANGED <<cfgFile, heap, cfg, assetExists, inputFrames, rng,
                   effect_vars, gui, project, seed, sp>>

\* How the preview invocation may end: ffmpeg refuses to write its own input.
FinalOutcomes(working, output) ==
    IF working = output THEN {"fail"} ELSE {"ok", "fail", "fail_partial"}

\* The finalization: the scale-down invocation (preview) or the copy.
Finalize(r) ==
    /\ run[r].pc = "final"
    /\ LET me == run[r]
           log(op, x) == [me EXCEPT !.calls =
                            Append(@, Call(op, "", me.working, me.output, x))]
           done(op) == /\ run' = [run EXCEPT ![r] =
                                     [log(op, "ok") EXCEPT !.pc = "done"]]
                       /\ fs' = [fs EXCEPT ![me.output] =
                                    Written(r, fs[me.working].frames)]
       IN  IF me.preview
           THEN \E o \in FinalOutcomes(me.working, me.output) :
                  CASE o = "ok" -> done("preview")
                    [] o = "fail_partial" ->
                       /\ run' = [run EXCEPT ![r] =
                                     Raise(log("preview", o), "ProcessingError")]
                       /\ fs' = [fs EXCEPT ![me.output] = Partial(r)]
                    [] OTHER ->
                       /\ run' = [run EXCEPT ![r] =
                                     Raise(log("preview", o), "ProcessingError")]
                       /\ UNCHANGED fs
           ELSE IF me.working = me.output
           THEN /\ run' = [run EXCEPT ![r] =
                              Raise(log("final_copy", "same_file"), "SameFileError")]
                /\ UNCHANGED fs
           ELSE done("final_copy")
    /\ UNCHANGED <<cfgFile, heap, cfg, assetExists, inputFrames, rng,
                   effect_vars, gui, project, seed, sp>>

---------------------------------------------------------------------------
(* Callers. *)

\* The toggles of run_gui.
GuiEffects ==
    {"invert", "reverse", "stutter_loop", "frame_shuffle", "mirror",
     "rainbow_overlay", "earrape"}

NotLoaded == [loaded |-> FALSE, t |-> "dict", effects |-> 0]

\* cfg = load_config(CONFIG_PATH): the returned object holds a reference to
\* its "effects" value, a new object of the heap.
LoadCfg ==
    /\ ~cfg.loaded
    /\ heap' = Append(heap, LoadConfig(cfgFile).effects)
    /\ cfg' = [loaded |-> TRUE, t |-> LoadConfig(cfgFile).t,
               effects |-> Len(heap) + 1]
    /\ cfgFile' = FileAfterLoad(cfgFile)
    /\ UNCHANGED <<assetExists, inputFrames, rng, fs, run, effect_vars, gui,
                   project, seed, sp>>

\* A caller passes the loaded configuration to the orchestrator, as cli_main
\* does (there with the first source and preview=True).
ApiCall(r) ==
    /\ cfg.loaded
    /\ gui = "off"
    /\ r = 1
    /\ \A q \in RunIds : run[q].pc = "idle"
    /\ \E i \in InputPaths, o \in OutputPaths, p \in BOOLEAN :
          run' = [run EXCEPT ![r] = CalledRun(i, o, p, cfg)]
    /\ UNCHANGED <<cfgFile, heap, cfg, assetExists, inputFrames, rng, fs,
                   effect_vars, gui, project, seed, sp>>

---------------------------------------------------------------------------
(* Initial states. *)

\* The per-family entries a configuration file gives the family in focus.
One == SampleScale

FocusEntries ==
    {Entry(FALSE, One), Entry(FALSE, One + One \div 2), Entry(TRUE, 0),
     Entry(TRUE, One), Entry(TRUE, One + One \div 2), Entry(TRUE, Pct(50)),
     EntryNoProb(TRUE), EntryNoProb(FALSE), EntryOther, EntryBadProb}

\* The entries it gives every other family.
BaseEntries == {Entry(FALSE, One), EntryMissing}

ObjectFiles ==
    {File("dict", DefaultKeys,
          EffectsDict([f \in Families |-> IF f = focus THEN e ELSE b])) :
        focus \in Families, e \in FocusEntries, b \in BaseEntries}

\* A missing file, text that is no JSON, JSON that is no object, and objects
\* without an "effects" key or with one that is no object.
OtherFiles ==
    {File("absent", {}, EffectsOther), File("garbage", {}, EffectsOther),
     File("scalar", {}, EffectsOther), File("seq", {}, EffectsOther),
     File("seq", {"effects"}, EffectsOther),
     File("seq", DefaultKeys, EffectsOther),
     File("dict", {"paths"}, EffectsOther),
     File("dict", {}, EffectsOther),
     File("dict", DefaultKeys, EffectsOther)}

ConfigFiles == ObjectFiles \cup OtherFiles

NoProject == [saved |-> FALSE, effects |-> EffectsOther]

SpIdle == [pc |-> "idle", num |-> 0, den |-> 1, vnum |-> 0, vden |-> 1,
           parts |-> <<>>]

\* The files before any run: the source clip, and stage artifacts an
\* earlier process left in the staging directory.
InitFs(n) ==
    [p \in Paths |-> IF p \in InputPaths THEN Written(0, n) ELSE NoFile]

InitEnv ==
    /\ heap = <<>>
    /\ cfg = NotLoaded
    /\ assetExists \in BOOLEAN
    /\ inputFrames \in 0..MaxInputFrames
    /\ rng \in 0..MaxSeed
    /\ seed = rng
    /\ fs = InitFs(inputFrames)
    /\ run = [r \in RunIds |-> IdleRun]
    /\ effect_vars = [k \in GuiEffects |-> [on |-> FALSE, clicks |-> 0]]
    /\ gui = "off"
    /\ project = NoProject

Init ==
    /\ cfgFile \in ConfigFiles
    /\ InitEnv
    /\ sp = SpIdle

Next ==
    \/ LoadCfg
    \/ \E r \in RunIds :
         \/ ApiCall(r)
         \/ Begin(r)
         \/ Invert(r)
         \/ Mirror(r)
         \/ Reverse(r)
         \/ SpeedChange(r)
         \/ StutterLoop(r)
         \/ FrameShuffle(r)
         \/ Chorus(r)
         \/ Earrape(r)
         \/ RainbowOverlay(r)
         \/ Finalize(r)

Spec == Init /\ [][Next]_vars

---------------------------------------------------------------------------
(* run_gui: the toggles, the preview threads and Save Project. *)

\* Clicks on the toggles a behaviour may hold.
MaxToggles == 1

\* The configurations the GUI is started on.
GuiFiles ==
    {File("dict", DefaultKeys,
          EffectsDict([f \in Families |->
              IF f \in on THEN Entry(TRUE, One) ELSE Entry(FALSE, One)])) :
        on \in {{"invert"}, {"invert", "mirror"}}}

\* cfg.get("effects", {}).get(effect, {}).get("enabled", True) raises on a
\* value that is no dict.
GuiReadable(c, eff) ==
    /\ c.t = "dict"
    /\ eff.t = "dict"
    /\ \A k \in GuiEffects : eff.entries[k].t # "other"

\* bool(e.get("enabled", True))
EnabledOf(e) == e.enabled # "false"

\* The set-up of run_gui: load_config and one IntVar per toggle.
RunGui ==
    /\ gui = "off"
    /\ ~cfg.loaded
    /\ \A q \in RunIds : run[q].pc = "idle"
    /\ LET c == LoadConfig(cfgFile) IN
       /\ heap' = Append(heap, c.effects)
       /\ cfg' = [loaded |-> TRUE, t |-> c.t, effects |-> Len(heap) + 1]
       /\ cfgFile' = FileAfterLoad(cfgFile)
       /\ IF GuiReadable(c, c.effects)
          THEN /\ gui' = "up"
               /\ effect_vars' = [k \in GuiEffects |->
                     [on |-> EnabledOf(c.effects.entries[k]), clicks |-> 0]]
          ELSE /\ gui' = "crashed"
               /\ UNCHANGED effect_vars
    /\ UNCHANGED <<assetExists, inputFrames, rng, fs, run, project, seed, sp>>

TotalClicks == LET RECURSIVE Sum(_)
                   Sum(S) == IF S = {} THEN 0
                             ELSE LET k == CHOOSE x \in S : TRUE
                                  IN effect_vars[k].clicks + Sum(S \ {k})
               IN Sum(GuiEffects)

\* The user clicks a Checkbutton.
Toggle(k) ==
    /\ gui = "up"
    /\ TotalClicks < MaxToggles
    /\ effect_vars' = [effect_vars EXCEPT ![k] =
                          [on |-> ~@.on, clicks |-> @.clicks + 1]]
    /\ UNCHANGED <<cfgFile, heap, cfg, assetExists, inputFrames, rng, fs, run,
                   gui, project, seed, sp>>

\* local_cfg = dict(cfg): a new top-level dict holding the same references.
ShallowCopy(c) == [loaded |-> c.loaded, t |-> c.t, effects |-> c.effects]

\* local_cfg["effects"].setdefault(k, {}); local_cfg["effects"][k]["enabled"]
\* = bool(v.get()), for every toggle k, on the object eff.
MergeToggles(eff) ==
    [eff EXCEPT !.entries =
        [f \in Families |->
            IF f \in GuiEffects
            THEN [(IF eff.entries[f].t = "missing" THEN EntryEmpty
                   ELSE eff.entries[f])
                  EXCEPT !.enabled = IF effect_vars[f].on THEN "true"
                                     ELSE "false"]
            ELSE eff.entries[f]]]

\* Generate Preview with a source selected: the toggles are merged into
\* local_cfg and the job is started on a new thread.
GeneratePreviewGui(r) ==
    /\ gui = "up"
    /\ run[r].pc = "idle"
    /\ \A q \in RunIds : q < r => run[q].pc # "idle"
    /\ LET local_cfg == ShallowCopy(cfg) IN
       /\ heap' = [heap EXCEPT ![local_cfg.effects] = MergeToggles(@)]
       /\ run' = [run EXCEPT ![r] =
                     CalledRun(SourceClip, PreviewOut, TRUE, local_cfg)]
    /\ UNCHANGED <<cfgFile, cfg, assetExists, inputFrames, rng, fs,
                   effect_vars, gui, project, seed, sp>>

\* Save Project: save_project(..., {"effects": cfg.get("effects", {}), ...})
SaveProj ==
    /\ gui = "up"
    /\ project' = [saved |-> TRUE, effects |-> heap[cfg.effects]]
    /\ UNCHANGED <<cfgFile, heap, cfg, assetExists, inputFrames, rng, fs, run,
                   effect_vars, gui, seed, sp>>

InitGui ==
    /\ cfgFile \in GuiFiles
    /\ InitEnv
    /\ sp = SpIdle
    /\ rng = 0
    /\ inputFrames = MaxInputFrames
    /\ ~assetExists

NextGui ==
    \/ RunGui
    \/ \E k \in GuiEffects : Toggle(k)
    \/ SaveProj
    \/ \E r \in RunIds :
         \/ GeneratePreviewGui(r)
         \/ Begin(r)
         \/ Invert(r)
         \/ Mirror(r)
         \/ Reverse(r)
         \/ SpeedChange(r)
         \/ StutterLoop(r)
         \/ FrameShuffle(r)
         \/ Chorus(r)
         \/ Earrape(r)
         \/ RainbowOverlay(r)
         \/ Finalize(r)

SpecGui == InitGui /\ [][NextGui]_vars

---------------------------------------------------------------------------
(* Two runs from the same seed: a caller seeds the generator, calls the
   orchestrator, seeds the generator again and repeats the call. *)

SeedFiles ==
    {File("absent", {}, EffectsOther),
     File("dict", DefaultKeys,
          EffectsDict([f \in Families |-> Entry(TRUE, Pct(50))]))} \cup
    {File("dict", DefaultKeys,
          EffectsDict([f \in Families |->
              IF f = focus THEN Entry(TRUE, One) ELSE Entry(TRUE, Pct(50))])) :
        focus \in {"stutter_loop", "frame_shuffle"}}

\* random.seed(s) with the seed of the first run, and the same call again.
Rerun(r) ==
    /\ r = 2
    /\ run[1].pc \in {"done", "raised"}
    /\ run[2].pc = "idle"
    /\ rng' = seed
    /\ run' = [run EXCEPT ![r] =
                  CalledRun(run[1].input, run[1].output, run[1].preview, cfg)]
    /\ UNCHANGED <<cfgFile, heap, cfg, assetExists, inputFrames, fs,
                   effect_vars, gui, project, seed, sp>>

InitSeed ==
    /\ cfgFile \in SeedFiles
    /\ InitEnv
    /\ sp = SpIdle

NextSeed ==
    \/ LoadCfg
    \/ \E r \in RunIds :
         \/ ApiCall(r)
         \/ Rerun(r)
         \/ Begin(r)
         \/ Invert(r)
         \/ Mirror(r)
         \/ Reverse(r)
         \/ SpeedChange(r)
         \/ StutterLoop(r)
         \/ FrameShuffle(r)
         \/ Chorus(r)
         \/ Earrape(r)
         \/ RainbowOverlay(r)
         \/ Finalize(r)

SpecSeed == InitSeed /\ [][NextSeed]_vars

---------------------------------------------------------------------------
(* apply_speed_change: the computation of the atempo chain.  A speed is the
   rational num/den; a float halves and doubles exactly, so the arithmetic
   below is that of the code short of overflow. *)

\* Speeds requested: num/den with num in 0..MaxSpeedNum, den in 1..MaxSpeedDen.
MaxSpeedNum == 20

MaxSpeedDen == 20

Rat(n, d) == [n |-> n, d |-> d]

\* val > 4.0
ExceedsFour(v) == v.n > 4 * v.d

\* val > 2.0
ExceedsTwo(v) == v.n > 2 * v.d

\* val < 0.5
BelowHalf(v) == 2 * v.n < v.d

\* 0.5 <= factor <= 2.0
InRange(v) == v.d <= 2 * v.n /\ v.n <= 2 * v.d

\* factor = speed; if factor <= 0: factor = 1.0.  In range, audio_filter
\* is the one atempo=factor; otherwise the loops run on val = factor.
SpeedEnter ==
    /\ sp.pc = "start"
    /\ LET factor == IF sp.num <= 0 THEN Rat(1, 1) ELSE Rat(sp.num, sp.den)
       IN  IF InRange(factor)
           THEN sp' = [sp EXCEPT !.pc = "done", !.parts = <<factor>>]
           ELSE sp' = [sp EXCEPT !.pc = "while_gt", !.vnum = factor.n,
                                 !.vden = factor.d, !.parts = <<>>]
    /\ UNCHANGED <<cfgFile, heap, cfg, assetExists, inputFrames, rng, fs, run,
                   effect_vars, gui, project, seed>>

\* while val > 2.0: parts.append(2.0); val /= 2.0
SpeedHalve ==
    /\ sp.pc = "while_gt"
    /\ ExceedsTwo(Rat(sp.vnum, sp.vden))
    /\ sp' = [sp EXCEPT !.parts = Append(@, Rat(2, 1)), !.vden = 2 * @]
    /\ UNCHANGED <<cfgFile, heap, cfg, assetExists, inputFrames, rng, fs, run,
                   effect_vars, gui, project, seed>>

SpeedHalveExit ==
    /\ sp.pc = "while_gt"
    /\ ~ExceedsTwo(Rat(sp.vnum, sp.vden))
    /\ sp' = [sp EXCEPT !.pc = "while_lt"]
    /\ UNCHANGED <<cfgFile, heap, cfg, assetExists, inputFrames, rng, fs, run,
                   effect_vars, gui, project, seed>>

\* while val < 0.5: parts.append(0.5); val /= 0.5
SpeedDouble ==
    /\ sp.pc = "while_lt"
    /\ BelowHalf(Rat(sp.vnum, sp.vden))
    /\ sp' = [sp EXCEPT !.parts = Append(@, Rat(1, 2)), !.vnum = 2 * @]
    /\ UNCHANGED <<cfgFile, heap, cfg, assetExists, inputFrames, rng, fs, run,
                   effect_vars, gui, project, seed>>

\* parts.append(val); audio_filter = ",".join(...)
SpeedDoubleExit ==
    /\ sp.pc = "while_lt"
    /\ ~BelowHalf(Rat(sp.vnum, sp.vden))
    /\ sp' = [sp EXCEPT !.pc = "done",
                        !.parts = Append(@, Rat(sp.vnum, sp.vden))]
    /\ UNCHANGED <<cfgFile, heap, cfg, assetExists, inputFrames, rng, fs, run,
                   effect_vars, gui, project, seed>>

InitSpeed ==
    /\ cfgFile = File("absent", {}, EffectsOther)
    /\ InitEnv
    /\ rng = 0
    /\ inputFrames = MaxInputFrames
    /\ ~assetExists
    /\ \E n \in 0..MaxSpeedNum, d \in 1..MaxSpeedDen :
          sp = [SpIdle EXCEPT !.pc = "start", !.num = n, !.den = d]

NextSpeed ==
    \/ SpeedEnter
    \/ SpeedHalve
    \/ SpeedHalveExit
    \/ SpeedDouble
    \/ SpeedDoubleExit

\* The function runs on the caller's thread until it returns.
SpecSpeed == InitSpeed /\ [][NextSpeed]_vars /\ WF_vars(NextSpeed)

---------------------------------------------------------------------------
(* Properties of one run. *)

Started(r) == run[r].pc \notin {"idle", "called"}

\* The families run r invoked an effect operation for, in order.
RECURSIVE InvokedFrom(_, _)
InvokedFrom(calls, i) ==
    IF i > Len(calls) THEN <<>>
    ELSE IF calls[i].op = "effect"
         THEN <<calls[i].fam>> \o InvokedFrom(calls, i + 1)
         ELSE InvokedFrom(calls, i + 1)

Invoked(r) == InvokedFrom(run[r].calls, 1)

InvokedSet(r) == {Invoked(r)[i] : i \in 1..Len(Invoked(r))}

FiredSet(r) == {run[r].fired[i].fam : i \in 1..Len(run[r].fired)}

EvaldSet(r) == {run[r].evald[i] : i \in 1..Len(run[r].evald)}

\* The configuration entry run r holds for family f.
EntryOf(r, f) == heap[run[r].effects].entries[f]

FailedResults == {"fail", "fail_partial", "fail_extract"}

\* The calls of run r that left a file (complete or not) at their output.
WroteTo(r, path) ==
    \E i \in 1..Len(run[r].calls) :
        /\ run[r].calls[i].dst = path
        /\ run[r].calls[i].result \in {"ok", "fail_partial"}

\* C1: in a run in which an external invocation (an effect stage or the
\* finalization pass) exits non-zero, the run ends by raising the error, the
\* failed invocation is the last thing the run did (no later family is
\* evaluated or invoked, no retry), and the run wrote no file to the
\* requested output path.
C1_FailFastNoOutput ==
    \A r \in RunIds :
        \A i \in 1..Len(run[r].calls) :
            run[r].calls[i].result \in FailedResults =>
                /\ run[r].pc = "raised"
                /\ run[r].err = "ProcessingError"
                /\ i = Len(run[r].calls)
                /\ run[r].calls[i].op = "effect" =>
                       run[r].evald[Len(run[r].evald)] = run[r].calls[i].fam
                /\ ~WroteTo(r, run[r].output)

\* C2: a family whose entry has enabled=false is never invoked and never
\* chosen, whatever its probability and whatever the generator yields.
C2_DisabledNeverFires ==
    \A r \in RunIds : Started(r) /\ run[r].cfgT = "dict" =>
        \A f \in Families :
            EntryOf(r, f).enabled = "false" =>
                f \notin InvokedSet(r) /\ f \notin FiredSet(r)

\* A finished run evaluated a family that is disabled with a probability of
\* 1.5, with every other family left to its defaults.
C2_Witness ==
    \E r \in RunIds, f \in Families :
        /\ run[r].pc = "done"
        /\ f \in EvaldSet(r)
        /\ EntryOf(r, f) = Entry(FALSE, One + One \div 2)
        /\ f \notin InvokedSet(r)
        /\ Len(run[r].fired) > 0

\* The order the specification gives the families.
DeclaredOrder ==
    <<"invert", "mirror", "reverse", "speed_change", "stutter_loop",
      "frame_shuffle", "chorus", "earrape", "rainbow_overlay">>

DeclaredIndex(f) == CHOOSE i \in 1..Len(DeclaredOrder) : DeclaredOrder[i] = f

IsPrefix(s, t) == Len(s) <= Len(t) /\ \A i \in 1..Len(s) : s[i] = t[i]

ConfigErrors == {"AttributeError", "TypeError"}

\* C4: the families are evaluated in the declared order, each exactly once in
\* a completed run; the effects invoked are invoked in the declared order;
\* and whether the family just evaluated fired is decided by its own entry,
\* its own sample and (for rainbow_overlay) the asset, not by earlier firings.
C4_FixedOrderIndependentFiring ==
    \A r \in RunIds : Started(r) =>
        LET me == run[r] IN
        /\ IsPrefix(me.evald, DeclaredOrder)
        /\ me.pc \in {"final", "done"} => me.evald = DeclaredOrder
        /\ me.pc \in Families =>
               Len(me.evald) = DeclaredIndex(me.pc) - 1
        /\ \A i, j \in 1..Len(Invoked(r)) :
               i < j => DeclaredIndex(Invoked(r)[i]) < DeclaredIndex(Invoked(r)[j])
        /\ InvokedSet(r) = FiredSet(r)
        /\ Len(me.evald) > 0 /\ me.err \notin ConfigErrors =>
               LET f == me.evald[Len(me.evald)]
                   e == EntryOf(r, f)
               IN  f \in FiredSet(r) <=>
                       /\ f = "rainbow_overlay" => assetExists
                       /\ e.enabled # "false"
                       /\ me.sample >= 0
                       /\ me.sample < (IF e.ptype = "num" THEN e.prob
                                       ELSE DefaultProb(f))

\* A completed run in which an early and a late family fired and one between
\* them did not.
C4_Witness ==
    \E r \in RunIds :
        /\ run[r].pc = "done"
        /\ Len(run[r].evald) = Len(DeclaredOrder)
        /\ "invert" \in InvokedSet(r)
        /\ "mirror" \notin InvokedSet(r)
        /\ \E f \in {"chorus", "earrape", "rainbow_overlay"} : f \in InvokedSet(r)

\* C5: the caller's source file is read only by the initial copy and is never
\* the write target of the initial copy or of an effect stage.
C5_InputNeverWritten ==
    \A r \in RunIds :
        \A i \in 1..Len(run[r].calls) :
            LET c == run[r].calls[i] IN
            /\ c.op \in {"copy", "effect"} /\ c.result \in {"ok", "fail_partial"}
                   => c.dst # run[r].input
            /\ c.src = run[r].input => c.op = "copy"

\* C8: with the overlay asset absent, rainbow_overlay is never chosen and
\* overlay_image is never invoked.
C8_NoOverlayWithoutAsset ==
    \A r \in RunIds : Started(r) /\ ~assetExists =>
        /\ "rainbow_overlay" \notin InvokedSet(r)
        /\ "rainbow_overlay" \notin FiredSet(r)

\* A finished run that evaluated rainbow_overlay, enabled with probability
\* 1.0, while the asset was absent.
C8_Witness ==
    \E r \in RunIds :
        /\ run[r].pc = "done"
        /\ ~assetExists
        /\ "rainbow_overlay" \in EvaldSet(r)
        /\ EntryOf(r, "rainbow_overlay") = Entry(TRUE, One)

\* C7: no content of the configuration file makes a run raise an error
\* caused by the configuration: load_config returns, and the orchestrator
\* evaluates the families as with the defaults for the malformed parts.
C7_MalformedConfigNeverAborts ==
    \A r \in RunIds : run[r].err \notin ConfigErrors

---------------------------------------------------------------------------
(* Properties of the stage artifacts of one run. *)

IsTransition(c) == c.op = "effect" /\ c.result = "ok"

\* The stage transitions of run r: its effect operations that returned.
StageTransitions(r) == SelectSeq(run[r].calls, IsTransition)

\* Run r holds a configuration that enables invert with probability 1.0 and
\* disables every other family.
OnlyInvert(r) ==
    /\ run[r].cfgT = "dict"
    /\ heap[run[r].effects].t = "dict"
    /\ EntryOf(r, "invert") = Entry(TRUE, One)
    /\ \A f \in Families \ {"invert"} :
           EntryOf(r, f).t = "dict" /\ EntryOf(r, f).enabled = "false"

FinalOps == {"preview", "final_copy"}

\* C11: a run has made as many stage transitions as families have fired; a
\* completed run is the initial copy, one transition per fired family and
\* the finalization.  With invert enabled at probability 1.0 and every other
\* family disabled, the only effect operation of a run is invert from the
\* stage-0 to the stage-1 artifact, a run past invert's conditional has made
\* exactly that one transition, a completed run is copy, invert,
\* finalization, and a run ends otherwise only by a failed file operation.
C11_OneTransitionPerFiredFamily ==
    \A r \in RunIds : Started(r) =>
        LET me == run[r]
            tr == StageTransitions(r)
        IN
        /\ Len(tr) = Len(me.steps)
        /\ me.pc # "raised" => Len(tr) = Len(me.fired)
        /\ me.pc = "done" =>
               /\ Len(me.calls) = Len(me.fired) + 2
               /\ me.calls[1].op = "copy"
               /\ me.calls[Len(me.calls)].op \in FinalOps
               /\ me.calls[Len(me.calls)].result = "ok"
        /\ OnlyInvert(r) =>
               /\ \A i \in 1..Len(me.calls) :
                      me.calls[i].op = "effect" =>
                          /\ me.calls[i].fam = "invert"
                          /\ me.calls[i].src = StepPath(0)
                          /\ me.calls[i].dst = StepPath(1)
               /\ me.pc \in (Families \ {"invert"}) \cup {"final", "done"} =>
                      /\ Len(tr) = 1
                      /\ FiredSet(r) = {"invert"}
               /\ me.pc = "done" =>
                      /\ Len(me.calls) = 3
                      /\ me.calls[2] =
                             Call("effect", "invert", StepPath(0), StepPath(1), "ok")
                      /\ me.calls[3].src = StepPath(1)
                      /\ me.calls[3].dst = me.output
               /\ me.pc = "raised" =>
                      me.err \in {"ProcessingError", "SameFileError"}

\* A completed run under the configuration that leaves only invert enabled,
\* at probability 1.0, from a seed other than 0.
C11_Witness ==
    \E r \in RunIds :
        /\ run[r].pc = "done"
        /\ OnlyInvert(r)
        /\ seed > 0
        /\ Len(StageTransitions(r)) = 1
        /\ fs[run[r].output] = Written(r, run[r].inFrames)

StageIndex(p) == CHOOSE i \in 0..(Len(StepName) - 1) : StepPath(i) = p

---------------------------------------------------------------------------
(* Properties of the GUI: concurrent previews and the toggles. *)

\* The stage artifact paths run r has written.
StageWrites(r) == {p \in StepPaths : WroteTo(r, p)}

\* The stage artifact paths run r has read.
StageReads(r) ==
    {run[r].calls[i].src : i \in 1..Len(run[r].calls)} \cap StepPaths

\* C3: concurrent runs use disjoint stage artifact paths: no run writes a
\* path another run has written or reads, and the working artifact a run is
\* about to read is the file that run itself wrote.
C3_DisjointStageArtifacts ==
    \A r \in RunIds :
        /\ \A q \in RunIds \ {r} :
               /\ StageWrites(r) \cap StageWrites(q) = {}
               /\ StageWrites(r) \cap StageReads(q) = {}
        /\ run[r].pc \in Families \cup {"final"} =>
               fs[run[r].working].writer = r

\* C6: a preview request leaves the loaded configuration as load_config
\* returned it, with the same entries and enabled values, and so Save Project
\* writes those.
C6_TogglesLeaveConfigUnchanged ==
    /\ cfg.loaded => heap[cfg.effects] = LoadConfig(cfgFile).effects
    /\ project.saved => project.effects = LoadConfig(cfgFile).effects

---------------------------------------------------------------------------
(* Properties of two runs from one seed. *)

\* What run r decided for family f: its parameter when it fired, -1 when not.
Decision(r, f) ==
    IF \E i \in 1..Len(run[r].fired) : run[r].fired[i].fam = f
    THEN (CHOOSE x \in {run[r].fired[i] : i \in 1..Len(run[r].fired)} :
             x.fam = f).param
    ELSE -1

\* C9: two runs started from the same seed with the same configuration, the
\* same asset state and an input of the same content decide alike for every
\* family both have evaluated (fired or not, and the speed, the repeats);
\* when both complete they fired the same families with the same parameters.
C9_SameSeedSameDecisions ==
    (Started(1) /\ Started(2) /\ run[1].inFrames = run[2].inFrames) =>
        /\ \A f \in EvaldSet(1) \cap EvaldSet(2) :
               Decision(1, f) = Decision(2, f)
        /\ run[1].pc = "done" /\ run[2].pc = "done" =>
               run[1].fired = run[2].fired

\* Both runs completed, and fired speed_change, stutter_loop and
\* frame_shuffle among others while leaving some family out.
C9_Witness ==
    /\ run[1].pc = "done"
    /\ run[2].pc = "done"
    /\ {"speed_change", "stutter_loop", "frame_shuffle"} \subseteq FiredSet(2)
    /\ FiredSet(2) # Families
    /\ \E f \in {"chorus", "earrape", "rainbow_overlay"} : f \in FiredSet(2)

---------------------------------------------------------------------------
(* Properties of the atempo chain. *)

RECURSIVE ProductNum(_, _)
ProductNum(parts, i) ==
    IF i > Len(parts) THEN 1 ELSE parts[i].n * ProductNum(parts, i + 1)

RECURSIVE ProductDen(_, _)
ProductDen(parts, i) ==
    IF i > Len(parts) THEN 1 ELSE parts[i].d * ProductDen(parts, i + 1)

ChainDone == sp.pc \in {"idle", "done"}

\* C10: for every speed s > 0 the computation of the chain ends, every
\* multiplier of the chain lies in [0.5, 2.0] and their product is s.
C10_AtempoChain ==
    /\ <>ChainDone
    /\ [](sp.pc = "done" /\ sp.num > 0 =>
            /\ Len(sp.parts) >= 1
            /\ \A i \in 1..Len(sp.parts) : InRange(sp.parts[i])
            /\ ProductNum(sp.parts, 1) * sp.den
                  = ProductDen(sp.parts, 1) * sp.num)

\* The chain of a speed below 1/8: three multipliers 0.5 and a remainder.
C10_Witness ==
    /\ sp.pc = "done"
    /\ 8 * sp.num < sp.den
    /\ Len(sp.parts) = 4
    /\ sp.parts[1] = Rat(1, 2)

====
